---- MODULE Spec2Model ----
(***************************************************************************)
(* A model of lecroyutils' waveform decoder, LecroyScopeData.__init__      *)
(* (src/src/lecroyutils/data.py; LecroyScopeData.py is the same decoder    *)
(* under its older method names).                                          *)
(*                                                                         *)
(* The input is a byte sequence and an optional decimation count.  The     *)
(* constructor is modelled stage by stage, in the order of its statements; *)
(* an exception ends it, either as DataCorruptException (the ValueError    *)
(* and IndexError the constructor catches) or as the exception that        *)
(* escapes.  Bytes are decoded as numpy decodes them: fixed-width          *)
(* integers and IEEE-754 floats under the byte order in force.             *)
(*                                                                         *)
(* Floating-point values are exact dyadic rationals (or inf, -inf, nan):   *)
(* rounding and the sign of zero are not modelled.  A float whose value    *)
(* needs more than the model's integer range decodes to the kind "wide",   *)
(* which no input of the model produces.                                   *)
(***************************************************************************)
EXTENDS Integers, Sequences, FiniteSets, TLC

VARIABLES
    data,      \* the byte sequence given to the constructor
    sparse,    \* the sparse argument: <<>> for None, <<k>> for the integer k
    pc,        \* the constructor's position, or how it ended
    self,      \* the attributes assigned so far
    logical    \* the header and samples the input buffer was encoded from

vars == <<data, sparse, pc, self, logical>>

None == "None"

NoSparse == <<>>

----------------------------------------------------------------------------
(* Integers and sequences *)

Min(a, b) == IF a < b THEN a ELSE b

Max(a, b) == IF a > b THEN a ELSE b

Abs(a) == IF a < 0 THEN -a ELSE a

RECURSIVE Gcd(_, _)
Gcd(a, b) == IF b = 0 THEN a ELSE Gcd(b, a % b)

RECURSIVE Reverse(_)
Reverse(s) == IF s = <<>> THEN <<>> ELSE Append(Reverse(Tail(s)), Head(s))

\* int(a / b) of Python for integers: true division, then truncation toward zero.
TruncDiv(a, b) ==
    IF (a >= 0) = (b > 0) THEN Abs(a) \div Abs(b) ELSE -(Abs(a) \div Abs(b))

----------------------------------------------------------------------------
(* Python's slice data[a:b]: a negative index counts from the end, and both
   ends are clamped to the sequence; the result may be short or empty. *)

SliceIndex(i, n) == IF i < 0 THEN Max(i + n, 0) ELSE Min(i, n)

PySlice(d, a, b) ==
    LET lo == SliceIndex(a, Len(d))
        hi == SliceIndex(b, Len(d))
    IN  IF lo < hi THEN SubSeq(d, lo + 1, hi) ELSE <<>>

----------------------------------------------------------------------------
(* Floating-point values *)

Fin(n, d) ==
    LET g == Gcd(Abs(n), d)
    IN  [k |-> "fin", n |-> n \div g, d |-> d \div g]

PInf == [k |-> "inf", n |-> 0, d |-> 1]

NInf == [k |-> "-inf", n |-> 0, d |-> 1]

NaN == [k |-> "nan", n |-> 0, d |-> 1]

Wide == [k |-> "wide", n |-> 0, d |-> 1]

FromInt(i) == Fin(i, 1)

\* -1, 0, 1: the sign of a value that is not nan.
FSign(a) ==
    CASE a.k = "inf" -> 1
      [] a.k = "-inf" -> -1
      [] OTHER -> IF a.n > 0 THEN 1 ELSE IF a.n < 0 THEN -1 ELSE 0

FNeg(a) ==
    CASE a.k = "fin" -> Fin(-a.n, a.d)
      [] a.k = "inf" -> NInf
      [] a.k = "-inf" -> PInf
      [] OTHER -> a

FMul(a, b) ==
    CASE a.k = "wide" \/ b.k = "wide" -> Wide
      [] a.k = "nan" \/ b.k = "nan" -> NaN
      [] a.k = "fin" /\ b.k = "fin" -> Fin(a.n * b.n, a.d * b.d)
      [] OTHER -> LET s == FSign(a) * FSign(b)
                  IN  IF s = 0 THEN NaN ELSE IF s > 0 THEN PInf ELSE NInf

FAdd(a, b) ==
    CASE a.k = "wide" \/ b.k = "wide" -> Wide
      [] a.k = "nan" \/ b.k = "nan" -> NaN
      [] a.k = "fin" /\ b.k = "fin" -> Fin(a.n * b.d + b.n * a.d, a.d * b.d)
      [] a.k = "fin" -> b
      [] b.k = "fin" -> a
      [] OTHER -> IF a.k = b.k THEN a ELSE NaN

FSub(a, b) == FAdd(a, FNeg(b))

\* a / b with numpy's division: x / 0 is inf or nan (a warning, no exception).
FDiv(a, b) ==
    CASE a.k = "wide" \/ b.k = "wide" -> Wide
      [] a.k = "nan" \/ b.k = "nan" -> NaN
      [] a.k = "fin" /\ b.k = "fin" ->
            IF b.n = 0
            THEN IF a.n = 0 THEN NaN ELSE IF a.n > 0 THEN PInf ELSE NInf
            ELSE IF b.n > 0 THEN Fin(a.n * b.d, a.d * b.n)
                 ELSE Fin(-(a.n * b.d), a.d * (-b.n))
      [] a.k = "fin" -> FromInt(0)
      [] b.k = "fin" -> IF (FSign(a) > 0) = (b.n >= 0) THEN PInf ELSE NInf
      [] OTHER -> NaN

\* a < b; false when either is nan.
FLt(a, b) ==
    CASE a.k \in {"nan", "wide"} \/ b.k \in {"nan", "wide"} -> FALSE
      [] a.k = "fin" /\ b.k = "fin" -> a.n * b.d < b.n * a.d
      [] a.k = "-inf" -> b.k # "-inf"
      [] b.k = "inf" -> a.k # "inf"
      [] OTHER -> FALSE

FGt(a, b) == FLt(b, a)

\* np.amax and np.amin over a non-empty flat sequence: a nan is propagated.
RECURSIVE AMax(_)
AMax(s) ==
    IF Len(s) = 1 THEN s[1]
    ELSE LET m == AMax(Tail(s))
         IN  IF s[1].k \in {"nan", "wide"} THEN s[1]
             ELSE IF m.k \in {"nan", "wide"} THEN m
             ELSE IF FLt(s[1], m) THEN m ELSE s[1]

RECURSIVE AMin(_)
AMin(s) ==
    IF Len(s) = 1 THEN s[1]
    ELSE LET m == AMin(Tail(s))
         IN  IF s[1].k \in {"nan", "wide"} THEN s[1]
             ELSE IF m.k \in {"nan", "wide"} THEN m
             ELSE IF FLt(m, s[1]) THEN m ELSE s[1]

----------------------------------------------------------------------------
(* numpy's decoding of fixed-width values.  Each operator takes the bytes
   most significant first: ByteOrder puts a buffer's bytes in that order. *)

\* A reader that takes every buffer as big-endian.
ByteOrderIgnored(bs, endianness) == bs

ByteOrder(bs, endianness) == IF endianness = "<" THEN Reverse(bs) ELSE bs

U1(bs) == bs[1]

U2(bs) == bs[1] * 256 + bs[2]

I2(bs) == (IF bs[1] >= 128 THEN bs[1] - 256 ELSE bs[1]) * 256 + bs[2]

I1(bs) == IF bs[1] >= 128 THEN bs[1] - 256 ELSE bs[1]

I4(bs) ==
    (IF bs[1] >= 128 THEN bs[1] - 256 ELSE bs[1]) * 16777216
        + bs[2] * 65536 + bs[3] * 256 + bs[4]

\* m * 2^e with m's factors of two moved into e.
RECURSIVE Dyadic(_, _, _)
Dyadic(neg, m, e) ==
    IF m % 2 = 0 /\ m # 0 THEN Dyadic(neg, m \div 2, e + 1)
    ELSE IF e > 20 \/ e < -20 \/ m >= 1024 THEN Wide
    ELSE IF e >= 0 THEN Fin((IF neg THEN -m ELSE m) * 2^e, 1)
    ELSE Fin(IF neg THEN -m ELSE m, 2^(-e))

\* IEEE-754 binary32: 1 sign bit, 8 exponent bits, 23 fraction bits.
F4(bs) ==
    LET neg == bs[1] >= 128
        ex == (bs[1] % 128) * 2 + bs[2] \div 128
        frac == (bs[2] % 128) * 65536 + bs[3] * 256 + bs[4]
    IN  IF ex = 255 THEN (IF frac # 0 THEN NaN ELSE IF neg THEN NInf ELSE PInf)
        ELSE IF ex = 0 THEN (IF frac = 0 THEN FromInt(0) ELSE Wide)
        ELSE Dyadic(neg, 8388608 + frac, ex - 150)

\* IEEE-754 binary64: 1 sign bit, 11 exponent bits, 52 fraction bits.
F8(bs) ==
    LET neg == bs[1] >= 128
        ex == (bs[1] % 128) * 16 + bs[2] \div 16
        hi == (bs[2] % 16) * 65536 + bs[3] * 256 + bs[4]
        lowzero == \A i \in 5..8 : bs[i] = 0
    IN  IF ex = 2047
        THEN (IF hi # 0 \/ ~lowzero THEN NaN ELSE IF neg THEN NInf ELSE PInf)
        ELSE IF ex = 0 THEN (IF hi = 0 /\ lowzero THEN FromInt(0) ELSE Wide)
        ELSE IF ~lowzero THEN Wide
        ELSE Dyadic(neg, 1048576 + hi, ex - 1043)

----------------------------------------------------------------------------
(* How a stage of the constructor ends: normally, with the attributes it has
   assigned, or with an exception.  The constructor's except clause turns
   ValueError and IndexError into DataCorruptException; anything else
   escapes as it is. *)

OK == ""

DataCorruptException == "DataCorruptException"

OverflowError == "OverflowError"

ZeroDivisionError == "ZeroDivisionError"

NotModelled == "NotModelled"

Ret(exc, s) == [exc |-> exc, self |-> s]

\* A numpy array: its shape and its elements in C order. A shape of <<>> is
\* a scalar.
NdArray(shape, v) == [shape |-> shape, v |-> v]

\* s[i] of a Python list, string or tuple: a negative index counts from the
\* end, and an index outside -len..len-1 raises IndexError.
PyIndexOk(s, i) == -Len(s) <= i /\ i < Len(s)

PyIndex(s, i) == IF i < 0 THEN s[Len(s) + i + 1] ELSE s[i + 1]

----------------------------------------------------------------------------
(* The positioned readers.  np.frombuffer(buf, dtype, count=1) raises
   ValueError when buf is shorter than one item, and reads the first item
   of a longer one. *)

_unpack(d, s, pos, length) ==
    LET start == pos + s._pos_wavedesc
    IN  ByteOrder(PySlice(d, start, start + length), s.endianness)

CanUnpack(d, s, pos, length) ==
    LET start == pos + s._pos_wavedesc
    IN  Len(PySlice(d, start, start + length)) >= length

_parse_int16(d, s, pos) == U2(_unpack(d, s, pos, 2))

_parse_word(d, s, pos) == I2(_unpack(d, s, pos, 2))

_parse_int32(d, s, pos) == I4(_unpack(d, s, pos, 4))

_parse_float(d, s, pos) == F4(_unpack(d, s, pos, 4))

_parse_double(d, s, pos) == F8(_unpack(d, s, pos, 8))

_parse_byte(d, s, pos) == U1(_unpack(d, s, pos, 1))

\* An "S<length>" item: the bytes in buffer order, trailing NULs dropped.
RECURSIVE StripNul(_)
StripNul(bs) ==
    IF bs # <<>> /\ bs[Len(bs)] = 0 THEN StripNul(SubSeq(bs, 1, Len(bs) - 1))
    ELSE bs

StringBytes(d, s, pos, length) ==
    LET start == pos + s._pos_wavedesc
    IN  StripNul(PySlice(d, start, start + length))

\* bytes.decode('ascii') raises UnicodeDecodeError, a ValueError, on a byte
\* above 127; the string is modelled by its character codes.
CanParseString(d, s, pos, length) ==
    /\ CanUnpack(d, s, pos, length)
    /\ \A i \in 1..Len(StringBytes(d, s, pos, length)) :
          StringBytes(d, s, pos, length)[i] < 128

_parse_string(d, s, pos, length) == StringBytes(d, s, pos, length)

----------------------------------------------------------------------------
(* Stage 1: the marker.  data[:50].decode("ascii", "replace") turns every
   byte above 127 into U+FFFD, one character per byte, and index() gives the
   first place the marker starts, or raises ValueError. *)

WAVEDESC == <<87, 65, 86, 69, 68, 69, 83, 67>>

PrefixLen == 50

AsciiReplace(bs) == [i \in 1..Len(bs) |-> IF bs[i] < 128 THEN bs[i] ELSE 65533]

\* The places (from 0) where sub starts in str.
Occurrences(str, sub) ==
    {i \in 0..(Len(str) - Len(sub)) : SubSeq(str, i + 1, i + Len(sub)) = sub}

StrIndexOk(str, sub) == Occurrences(str, sub) # {}

StrIndex(str, sub) ==
    CHOOSE i \in Occurrences(str, sub) : \A j \in Occurrences(str, sub) : i <= j

\* A search for the marker in the whole buffer.
LocateMarkerAnywhere(d, s) ==
    LET whole == AsciiReplace(d)
    IN  IF ~StrIndexOk(whole, WAVEDESC) THEN Ret(DataCorruptException, s)
        ELSE Ret(OK, [s EXCEPT !._pos_wavedesc = StrIndex(whole, WAVEDESC)])

LocateMarker(d, s) ==
    LET prefix == AsciiReplace(PySlice(d, 0, PrefixLen))
    IN  IF ~StrIndexOk(prefix, WAVEDESC) THEN Ret(DataCorruptException, s)
        ELSE Ret(OK, [s EXCEPT !._pos_wavedesc = StrIndex(prefix, WAVEDESC)])

----------------------------------------------------------------------------
(* Stage 2: the comm order, read under the initial byte order "<", selects
   the byte order of every later read. *)

OrderTable == <<">", "<">>

ReadCommOrder(d, s) ==
    IF ~CanUnpack(d, s, 34, 2) THEN Ret(DataCorruptException, s)
    ELSE LET order == _parse_int16(d, s, 34)
         IN  IF ~PyIndexOk(OrderTable, order) THEN Ret(DataCorruptException, s)
             ELSE Ret(OK, [s EXCEPT !._comm_order = order,
                                    !.endianness = PyIndex(OrderTable, order)])

----------------------------------------------------------------------------
(* Stage 3: the scalar header fields up to the unit strings.  Every failure
   here is a short read or a non-ASCII string: a ValueError. *)

ParseHeader(d, s) ==
    IF ~(/\ CanParseString(d, s, 16, 16)
         /\ CanUnpack(d, s, 32, 2)
         /\ CanUnpack(d, s, 36, 4)
         /\ CanUnpack(d, s, 40, 4)
         /\ CanUnpack(d, s, 48, 4)
         /\ CanUnpack(d, s, 60, 4)
         /\ CanParseString(d, s, 76, 16)
         /\ CanUnpack(d, s, 92, 4)
         /\ CanUnpack(d, s, 116, 4)
         /\ CanUnpack(d, s, 144, 4)
         /\ CanUnpack(d, s, 156, 4)
         /\ CanUnpack(d, s, 160, 4)
         /\ CanUnpack(d, s, 164, 4)
         /\ CanUnpack(d, s, 168, 4)
         /\ CanUnpack(d, s, 172, 2)
         /\ CanUnpack(d, s, 176, 4)
         /\ CanUnpack(d, s, 180, 8)
         /\ CanParseString(d, s, 196, 48)
         /\ CanParseString(d, s, 244, 48))
    THEN Ret(DataCorruptException, s)
    ELSE LET gain == _parse_float(d, s, 156)
             offset == _parse_float(d, s, 160)
         IN  Ret(OK, [s EXCEPT
                !.template_name = _parse_string(d, s, 16, 16),
                !._comm_type = _parse_int16(d, s, 32),
                !.len_wavedesc = _parse_int32(d, s, 36),
                !.len_usertext = _parse_int32(d, s, 40),
                !.len_triggertime_array = _parse_int32(d, s, 48),
                !.len_wave_array_1 = _parse_int32(d, s, 60),
                !.instrument_name = _parse_string(d, s, 76, 16),
                !.instrument_number = _parse_int32(d, s, 92),
                !.count_wave_array = _parse_int32(d, s, 116),
                !.subarray_count = _parse_int32(d, s, 144),
                !.vertical_gain = gain,
                !.vertical_offset = offset,
                !.y_max = FSub(FMul(gain, _parse_float(d, s, 164)), offset),
                !.y_min = FSub(FMul(gain, _parse_float(d, s, 168)), offset),
                !.nominal_bits = _parse_int16(d, s, 172),
                !.horizontal_interval = _parse_float(d, s, 176),
                !.horizontal_offset = _parse_double(d, s, 180),
                !.y_unit = _parse_string(d, s, 196, 48),
                !.x_unit = _parse_string(d, s, 244, 48)])

----------------------------------------------------------------------------
(* Stage 4: the trigger timestamp.  int() of a nan raises ValueError; int()
   of an infinity raises OverflowError, which the constructor does not
   catch.  datetime() raises ValueError on a field out of range.  (A second
   count of 2^31 or more would make datetime() raise OverflowError too; the
   model's finite floats stay below that.) *)

IsLeap(year) == (year % 4 = 0 /\ year % 100 # 0) \/ year % 400 = 0

DaysInMonth(year, month) ==
    IF month = 2 THEN (IF IsLeap(year) THEN 29 ELSE 28)
    ELSE IF month \in {4, 6, 9, 11} THEN 30 ELSE 31

DatetimeOk(year, month, day, hour, minute, second, microsecond) ==
    /\ 1 <= year /\ year <= 9999
    /\ 1 <= month /\ month <= 12
    /\ 1 <= day /\ day <= DaysInMonth(year, month)
    /\ 0 <= hour /\ hour <= 23
    /\ 0 <= minute /\ minute <= 59
    /\ 0 <= second /\ second <= 59
    /\ 0 <= microsecond /\ microsecond <= 999999

_parse_timestamp(d, s, pos) ==
    IF ~CanUnpack(d, s, pos, 8) THEN Ret(DataCorruptException, s)
    ELSE LET second_float == _parse_double(d, s, pos)
         IN  IF second_float.k = "nan" THEN Ret(DataCorruptException, s)
             ELSE IF second_float.k \in {"inf", "-inf"} THEN Ret(OverflowError, s)
             ELSE IF second_float.k = "wide" THEN Ret(NotModelled, s)
             ELSE IF ~(/\ CanUnpack(d, s, pos + 8, 1)
                       /\ CanUnpack(d, s, pos + 9, 1)
                       /\ CanUnpack(d, s, pos + 10, 1)
                       /\ CanUnpack(d, s, pos + 11, 1)
                       /\ CanUnpack(d, s, pos + 12, 2))
             THEN Ret(DataCorruptException, s)
             ELSE LET second == TruncDiv(second_float.n, second_float.d)
                      rest == FSub(second_float, FromInt(second))
                      microsecond == TruncDiv(rest.n * 1000000, rest.d)
                      minute == _parse_byte(d, s, pos + 8)
                      hour == _parse_byte(d, s, pos + 9)
                      day == _parse_byte(d, s, pos + 10)
                      month == _parse_byte(d, s, pos + 11)
                      year == _parse_word(d, s, pos + 12)
                  IN  IF ~DatetimeOk(year, month, day, hour, minute, second,
                                     microsecond)
                      THEN Ret(DataCorruptException, s)
                      ELSE Ret(OK, [s EXCEPT !.trigger_time =
                              [year |-> year, month |-> month, day |-> day,
                               hour |-> hour, minute |-> minute,
                               second |-> second, microsecond |-> microsecond]])

ParseTimestamp(d, s) == _parse_timestamp(d, s, 296)

----------------------------------------------------------------------------
(* Stage 5: the table-indexed fields, the timebase and the sample rate. *)

RecordTypes ==
    <<"single_sweep", "interleaved", "histogram", "graph", "filter_coefficient",
      "complex", "extrema", "sequence_obsolete", "centered_RIS", "peak_detect">>

ProcessingTypes ==
    <<"No Processing", "FIR Filter", "interpolated", "sparsed", "autoscaled",
      "no_results", "rolling", "cumulative">>

Couplings == <<"DC50", "GND", "DC1M", "GND", "AC1M">>

BandwidthLimits == <<"off", "on">>

WaveSources == <<"C1", "C2", "C3", "C4", "ND">>

\* The characters of "pnum k".
UnitPrefixes == <<"p", "n", "u", "m", " ", "k">>

Magnitudes == <<1, 2, 5, 10, 20, 50, 100, 200, 500>>

\* str.strip() of a single character.
Strip(c) == IF c = " " THEN "" ELSE c

\* A timebase table with ten magnitudes to the unit.
TimebaseStringDecades(timebase) ==
    IF timebase < 48
    THEN LET unit == PyIndex(UnitPrefixes, TruncDiv(timebase, 10))
             value == PyIndex(Magnitudes, timebase % 9)
         IN  ToString(value) \o " " \o Strip(unit) \o "s/div"
    ELSE IF timebase = 100 THEN "EXTERNAL"
    ELSE None

\* The string _parse_timebase returns for a code; a code that is neither
\* below 48 nor 100 falls off the end of the function, which returns None.
TimebaseString(timebase) ==
    IF timebase < 48
    THEN LET unit == PyIndex(UnitPrefixes, TruncDiv(timebase, 9))
             value == PyIndex(Magnitudes, timebase % 9)
         IN  ToString(value) \o " " \o Strip(unit) \o "s/div"
    ELSE IF timebase = 100 THEN "EXTERNAL"
    ELSE None

_parse_timebase(d, s, pos) == TimebaseString(_parse_int16(d, s, pos))

\* The (offset, table) pairs in the order the constructor reads them; the
\* timebase is read between the first two and the last three.
TableFieldOk(d, s, pos, table) ==
    CanUnpack(d, s, pos, 2) /\ PyIndexOk(table, _parse_int16(d, s, pos))

TableField(d, s, pos, table) == PyIndex(table, _parse_int16(d, s, pos))

ParseEnums(d, s) ==
    IF ~(/\ TableFieldOk(d, s, 316, RecordTypes)
         /\ TableFieldOk(d, s, 318, ProcessingTypes)
         /\ CanUnpack(d, s, 324, 2)
         /\ TableFieldOk(d, s, 326, Couplings)
         /\ TableFieldOk(d, s, 334, BandwidthLimits)
         /\ TableFieldOk(d, s, 344, WaveSources))
    THEN Ret(DataCorruptException, s)
    ELSE Ret(OK, [s EXCEPT
            !.record_type = TableField(d, s, 316, RecordTypes),
            !.processing_done = TableField(d, s, 318, ProcessingTypes),
            !.timebase = _parse_timebase(d, s, 324),
            !.Ts = s.horizontal_interval,
            !.fs = FDiv(FromInt(1), s.horizontal_interval),
            !.vertical_coupling = TableField(d, s, 326, Couplings),
            !.bandwidth_limit = TableField(d, s, 334, BandwidthLimits),
            !.wave_source = TableField(d, s, 344, WaveSources)])

----------------------------------------------------------------------------
(* numpy pieces the sample stages use *)

\* np.linspace(0, stop, num=num): num points, the last one at stop.
Linspace(stop, num) ==
    IF num <= 0 THEN <<>>
    ELSE IF num = 1 THEN <<FromInt(0)>>
    ELSE LET step == FDiv(stop, FromInt(num - 1))
         IN  [i \in 1..num |-> IF i = num THEN stop
                               ELSE FMul(FromInt(i - 1), step)]

\* The item size of np.dtype((base, n)) for a base of `width` bytes: (base, 1)
\* is the base type itself, any other n a subarray of n items.  A negative n
\* raises ValueError.
SubarrayDtypeOk(n) == n >= 0

SubarrayItemsize(width, n) == width * n

\* np.frombuffer(buf, dtype, count=1): ValueError for an item size of 0 or a
\* buffer shorter than one item; a longer buffer is read from its start.
FromBufferOk(buf, itemsize) == itemsize # 0 /\ Len(buf) >= itemsize

\* The n items of `width` bytes at the start of buf, each decoded by conv.
Items(buf, width, n, endianness, conv(_)) ==
    [i \in 1..n |->
        conv(ByteOrder(SubSeq(buf, (i - 1) * width + 1, i * width), endianness))]

\* np.frombuffer(buf, np.dtype((base, n)), count=1)[0]: for n = 1 the item
\* itself, a scalar; otherwise an array of n items.
FromBufferFirst(buf, width, n, endianness, conv(_)) ==
    NdArray(IF n = 1 THEN <<>> ELSE <<n>>, Items(buf, width, n, endianness, conv))

Size(a) == Len(a.v)

\* a.reshape(r, c): ValueError unless r * c is the array's size.
ReshapeOk(a, r, c) == r * c = Size(a)

Reshape(a, r, c) == NdArray(<<r, c>>, a.v)

\* A transposition that swaps the shape and leaves the elements in place.
TransposeShapeOnly(a) == NdArray(<<a.shape[2], a.shape[1]>>, a.v)

\* a.T of a two-dimensional array.
Transpose(a) ==
    LET r == a.shape[1]
        c == a.shape[2]
    IN  NdArray(<<c, r>>,
                [i \in 1..(r * c) |-> a.v[((i - 1) % r) * c + ((i - 1) \div r) + 1]])

\* np.tile(row, (reps, 1)) + column.reshape((-1, 1)) for a column of reps
\* values: row i is the row plus column[i].
TilePlusColumn(row, column) ==
    LET r == Len(column)
        c == Len(row)
    IN  NdArray(<<r, c>>,
                [i \in 1..(r * c) |->
                    FAdd(row[((i - 1) % c) + 1], column[((i - 1) \div c) + 1])])

\* a[indices] for an integer index array: rows of a two-dimensional array,
\* elements of a one-dimensional one.  IndexError for a scalar, and for an
\* index outside -len..len-1.
TakeOk(a, indices) ==
    /\ a.shape # <<>>
    /\ \A k \in 1..Len(indices) : -a.shape[1] <= indices[k] /\ indices[k] < a.shape[1]

Take(a, indices) ==
    LET n == a.shape[1]
        w == IF Len(a.shape) = 2 THEN a.shape[2] ELSE 1
        row(k) == IF indices[k] < 0 THEN indices[k] + n ELSE indices[k]
    IN  NdArray(IF Len(a.shape) = 2 THEN <<Len(indices), w>> ELSE <<Len(indices)>>,
                [i \in 1..(Len(indices) * w) |->
                    a.v[row(((i - 1) \div w) + 1) * w + ((i - 1) % w) + 1]])

\* np.arange(n): 0..n-1, empty for n <= 0.
Arange(n) == [i \in 1..Max(n, 0) |-> i - 1]

----------------------------------------------------------------------------
(* Stage 6: the flat sample array and its time axis.  The lengths are added
   as unbounded integers: the wrap-around of 32-bit sums is not modelled. *)

SampleWidth(s) == IF s._comm_type = 0 THEN 1 ELSE 2

SampleStart(s) ==
    s._pos_wavedesc + s.len_wavedesc + s.len_usertext + s.len_triggertime_array

SampleBuffer(d, s) == PySlice(d, SampleStart(s), SampleStart(s) + s.len_wave_array_1)

DecodeSamples(d, s) ==
    LET n == s.count_wave_array
        width == SampleWidth(s)
        buf == SampleBuffer(d, s)
    IN  IF ~SubarrayDtypeOk(n) \/ ~FromBufferOk(buf, SubarrayItemsize(width, n))
        THEN Ret(DataCorruptException, s)
        ELSE Ret(OK, [s EXCEPT
                !.y = IF width = 1
                      THEN FromBufferFirst(buf, width, n, s.endianness, I1)
                      ELSE FromBufferFirst(buf, width, n, s.endianness, I2),
                !.x = LET ramp == Linspace(FMul(FromInt(n), s.horizontal_interval), n)
                      IN  NdArray(<<n>>,
                             [i \in 1..n |-> FAdd(ramp[i], s.horizontal_offset)])])

----------------------------------------------------------------------------
(* Stage 7: sequence mode.  With more than one segment the trigger-time
   array is decoded, y is reshaped to one column per segment and x is
   rebuilt with each segment's ramp shifted by its trigger time. *)

TriggerStart(s) == s._pos_wavedesc + s.len_wavedesc + s.len_usertext

TriggerBuffer(d, s) == PySlice(d, TriggerStart(s), TriggerStart(s) + s.len_triggertime_array)

\* a[::2] and a[1::2] of a flat sequence.
EvenItems(v) == [i \in 1..((Len(v) + 1) \div 2) |-> v[2 * i - 1]]

OddItems(v) == [i \in 1..(Len(v) \div 2) |-> v[2 * i]]

SequenceMode(d, s) ==
    LET segs == s.subarray_count
        buf == TriggerBuffer(d, s)
        points_per_subarray == TruncDiv(s.count_wave_array, segs)
    IN  IF ~(segs > 1) THEN Ret(OK, [s EXCEPT !.is_sequence = FALSE])
        ELSE IF ~FromBufferOk(buf, SubarrayItemsize(8, 2 * segs))
        THEN Ret(DataCorruptException, s)
        ELSE IF ~ReshapeOk(s.y, segs, points_per_subarray)
        THEN Ret(DataCorruptException, s)
        ELSE LET interleaved_data == Items(buf, 8, 2 * segs, s.endianness, F8)
                 trigger_times == EvenItems(interleaved_data)
                 ramp == Linspace(FMul(FromInt(points_per_subarray),
                                       s.horizontal_interval),
                                  points_per_subarray)
                 base == [i \in 1..points_per_subarray |->
                             FAdd(ramp[i], s.horizontal_offset)]
             IN  Ret(OK, [s EXCEPT
                    !.is_sequence = TRUE,
                    !.trigger_times = trigger_times,
                    !.trigger_offsets = OddItems(interleaved_data),
                    !.y = Transpose(Reshape(s.y, segs, points_per_subarray)),
                    !.x = Transpose(TilePlusColumn(base, trigger_times))])

----------------------------------------------------------------------------
(* Stage 8: the ADC codes are scaled to physical values and compared with
   the vertical range.  A clipped signal only sets the flag (and emits a
   warning, which is no state of the object). *)

Scaled(s, raw) == FSub(FMul(s.vertical_gain, FromInt(raw)), s.vertical_offset)

\* A clipping test that looks at the maximum only.
IsClippedAbove(s, y) == FGt(AMax(y.v), s.y_max)

IsClipped(s, y) == FGt(AMax(y.v), s.y_max) \/ FLt(AMin(y.v), s.y_min)

ScaleAndClip(d, s) ==
    LET y == NdArray(s.y.shape, [i \in 1..Size(s.y) |-> Scaled(s, s.y.v[i])])
    IN  IF Size(y) = 0 THEN Ret(DataCorruptException, s)
        ELSE Ret(OK, [s EXCEPT !.y = y, !.clipped = IsClipped(s, y)])

----------------------------------------------------------------------------
(* Stage 9: decimation.  len(x) / sparse raises ZeroDivisionError for
   sparse = 0, which the constructor does not catch. *)

SparseIndices(length, sp) ==
    LET stride == TruncDiv(length, sp)
    IN  [k \in 1..Len(Arange(sp)) |-> stride * Arange(sp)[k]]

Decimate(sp, s) ==
    IF sp = NoSparse THEN Ret(OK, s)
    ELSE IF sp[1] = 0 THEN Ret(ZeroDivisionError, s)
    ELSE LET indices == SparseIndices(s.x.shape[1], sp[1])
         IN  IF ~TakeOk(s.x, indices) \/ ~TakeOk(s.y, indices)
             THEN Ret(DataCorruptException, s)
             ELSE Ret(OK, [s EXCEPT !.x = Take(s.x, indices),
                                    !.y = Take(s.y, indices)])

----------------------------------------------------------------------------
(* The constructor as a whole: the stages in order, ended by the first
   exception. *)

NewObject ==
    [endianness |-> "<", _pos_wavedesc |-> None, _comm_order |-> None,
     template_name |-> None, _comm_type |-> None, len_wavedesc |-> None,
     len_usertext |-> None, len_triggertime_array |-> None,
     len_wave_array_1 |-> None, instrument_name |-> None,
     instrument_number |-> None, count_wave_array |-> None,
     subarray_count |-> None, vertical_gain |-> None, vertical_offset |-> None,
     y_max |-> None, y_min |-> None, nominal_bits |-> None,
     horizontal_interval |-> None, horizontal_offset |-> None, y_unit |-> None,
     x_unit |-> None, trigger_time |-> None, record_type |-> None,
     processing_done |-> None, timebase |-> None, Ts |-> None, fs |-> None,
     vertical_coupling |-> None, bandwidth_limit |-> None, wave_source |-> None,
     y |-> None, x |-> None, is_sequence |-> None, trigger_times |-> None,
     trigger_offsets |-> None, clipped |-> None]

Stages ==
    <<"locate", "comm_order", "header", "timestamp", "enums", "samples",
      "sequence", "scale", "sparse">>

RunStage(stage, d, sp, s) ==
    CASE stage = "locate" -> LocateMarker(d, s)
      [] stage = "comm_order" -> ReadCommOrder(d, s)
      [] stage = "header" -> ParseHeader(d, s)
      [] stage = "timestamp" -> ParseTimestamp(d, s)
      [] stage = "enums" -> ParseEnums(d, s)
      [] stage = "samples" -> DecodeSamples(d, s)
      [] stage = "sequence" -> SequenceMode(d, s)
      [] stage = "scale" -> ScaleAndClip(d, s)
      [] stage = "sparse" -> Decimate(sp, s)

RECURSIVE RunFrom(_, _, _, _)
RunFrom(i, d, sp, s) ==
    IF i > Len(Stages) THEN Ret(OK, s)
    ELSE LET r == RunStage(Stages[i], d, sp, s)
         IN  IF r.exc # OK THEN r ELSE RunFrom(i + 1, d, sp, r.self)

Construct(d, sp) == RunFrom(1, d, sp, NewObject)

----------------------------------------------------------------------------
(* A reference encoder: the buffer that holds a logical header and samples
   in the layout the constructor reads.  Integers are given by value and
   floats by their IEEE-754 bytes, most significant first; h.enc is the byte
   order the buffer is written in. *)

RECURSIVE Flatten(_)
Flatten(ss) == IF ss = <<>> THEN <<>> ELSE Head(ss) \o Flatten(Tail(ss))

Put(bs, enc) == IF enc = "<" THEN Reverse(bs) ELSE bs

\* Two's complement, most significant byte first.
EncInt2(v) == <<(v \div 256) % 256, v % 256>>

EncInt4(v) ==
    <<(v \div 16777216) % 256, (v \div 65536) % 256, (v \div 256) % 256, v % 256>>

HeaderLen == 346

HeaderFields(h) ==
    <<  <<0, h.marker>>,
        <<16, h.template_name>>,
        <<32, Put(EncInt2(h.comm_type), h.enc)>>,
        <<34, Put(EncInt2(h.comm_order), h.enc)>>,
        <<36, Put(EncInt4(h.len_wavedesc), h.enc)>>,
        <<40, Put(EncInt4(h.len_usertext), h.enc)>>,
        <<48, Put(EncInt4(h.len_triggertime_array), h.enc)>>,
        <<60, Put(EncInt4(h.len_wave_array_1), h.enc)>>,
        <<76, h.instrument_name>>,
        <<92, Put(EncInt4(h.instrument_number), h.enc)>>,
        <<116, Put(EncInt4(h.count_wave_array), h.enc)>>,
        <<144, Put(EncInt4(h.subarray_count), h.enc)>>,
        <<156, Put(h.vertical_gain, h.enc)>>,
        <<160, Put(h.vertical_offset, h.enc)>>,
        <<164, Put(h.max_value, h.enc)>>,
        <<168, Put(h.min_value, h.enc)>>,
        <<172, Put(EncInt2(h.nominal_bits), h.enc)>>,
        <<176, Put(h.horizontal_interval, h.enc)>>,
        <<180, Put(h.horizontal_offset, h.enc)>>,
        <<196, h.y_unit>>,
        <<244, h.x_unit>>,
        <<296, Put(h.seconds, h.enc)>>,
        <<304, <<h.minute, h.hour, h.day, h.month>> >>,
        <<308, Put(EncInt2(h.year), h.enc)>>,
        <<316, Put(EncInt2(h.record_type), h.enc)>>,
        <<318, Put(EncInt2(h.processing_done), h.enc)>>,
        <<324, Put(EncInt2(h.timebase), h.enc)>>,
        <<326, Put(EncInt2(h.vertical_coupling), h.enc)>>,
        <<334, Put(EncInt2(h.bandwidth_limit), h.enc)>>,
        <<344, Put(EncInt2(h.wave_source), h.enc)>> >>

Zeros(n) == [i \in 1..n |-> 0]

\* The fields at their offsets, in order, with zero bytes between them.
RECURSIVE Layout(_, _)
Layout(fields, at) ==
    IF fields = <<>> THEN Zeros(HeaderLen - at)
    ELSE Zeros(fields[1][1] - at) \o fields[1][2]
            \o Layout(Tail(fields), fields[1][1] + Len(fields[1][2]))

HeaderBytes(h) == Layout(HeaderFields(h), 0)

EncSample(v, h) ==
    IF h.comm_type = 0 THEN <<v % 256>> ELSE Put(EncInt2(v), h.enc)

SampleBytes(h) == Flatten([i \in 1..Len(h.samples) |-> EncSample(h.samples[i], h)])

TriggerBytes(h) == Flatten([i \in 1..Len(h.trigger) |-> Put(h.trigger[i], h.enc)])

Encode(h) ==
    LET whole == h.prefix \o HeaderBytes(h) \o h.usertext \o TriggerBytes(h)
                    \o SampleBytes(h) \o h.trailing
    IN  IF h.keep < 0 THEN whole ELSE SubSeq(whole, 1, Min(h.keep, Len(whole)))

----------------------------------------------------------------------------
(* The inputs: buffers encoded from logical headers, and the sparse
   argument.  Each family varies a few fields of a consistent capture. *)

MaxSamples == 6

MaxSegments == 3

Encodings == {">", "<"}

\* IEEE-754 binary32 bytes, most significant first.
F4Zero == <<0, 0, 0, 0>>
F4Half == <<63, 0, 0, 0>>
F4One == <<63, 128, 0, 0>>
F4Two == <<64, 0, 0, 0>>
F4Four == <<64, 128, 0, 0>>
F4MinusOne == <<191, 128, 0, 0>>
F4MinusFour == <<192, 128, 0, 0>>
F4Max8 == <<66, 254, 0, 0>>
F4Min8 == <<195, 0, 0, 0>>
F4Inf == <<127, 128, 0, 0>>
F4NaN == <<127, 192, 0, 0>>

\* IEEE-754 binary64 bytes, most significant first.
F8Of(b1, b2, b3) == <<b1, b2, b3, 0, 0, 0, 0, 0>>

F8Zero == F8Of(0, 0, 0)
F8MinusOne == F8Of(191, 240, 0)
F8MinusHalf == F8Of(191, 224, 0)
F8Sec30_5 == F8Of(64, 62, 128)
F8Sec59_5 == F8Of(64, 77, 192)
F8Sec60 == F8Of(64, 78, 0)
F8Inf == F8Of(127, 240, 0)
F8MinusInf == F8Of(255, 240, 0)
F8NaN == F8Of(127, 248, 0)

\* Per segment: its trigger time, then its trigger offset.
\* -1, 0.25; 2.5, 0.5; 5, 0.75; 9, 1; 12, 1.5
TriggerTable ==
    <<F8Of(191, 240, 0), F8Of(63, 208, 0), F8Of(64, 4, 0), F8Of(63, 224, 0),
      F8Of(64, 20, 0), F8Of(63, 232, 0), F8Of(64, 34, 0), F8Of(63, 240, 0),
      F8Of(64, 40, 0), F8Of(63, 248, 0)>>

Digits(n) == [i \in 1..n |-> 48 + (i % 10)]

Base(enc) ==
    [prefix |-> Digits(11), marker |-> WAVEDESC, enc |-> enc,
     comm_order |-> IF enc = ">" THEN 0 ELSE 1, comm_type |-> 1,
     template_name |-> <<76, 69, 67, 82, 79, 89, 95, 50, 95, 51>>,
     len_wavedesc |-> HeaderLen, len_usertext |-> 0,
     len_triggertime_array |-> 0, len_wave_array_1 |-> 6,
     instrument_name |-> <<76, 67, 82, 89>>, instrument_number |-> 1234,
     count_wave_array |-> 3, subarray_count |-> 1,
     vertical_gain |-> F4Half, vertical_offset |-> F4One,
     max_value |-> F4Max8, min_value |-> F4Min8, nominal_bits |-> 8,
     horizontal_interval |-> F4Half, horizontal_offset |-> F8MinusOne,
     y_unit |-> <<86>>, x_unit |-> <<83>>,
     seconds |-> F8Sec30_5, minute |-> 15, hour |-> 10, day |-> 3,
     month |-> 11, year |-> 2020,
     record_type |-> 0, processing_done |-> 0, timebase |-> 2,
     vertical_coupling |-> 0, bandwidth_limit |-> 0, wave_source |-> 0,
     usertext |-> <<>>, trigger |-> <<>>, samples |-> <<-3, -1, 1>>,
     trailing |-> <<>>, keep |-> -1]

Patterns == {<<-3, 2>>, <<100, -9>>}

Pattern(n, pat) == [i \in 1..n |-> pat[1] + pat[2] * (i - 1)]

\* h with n samples of a pattern in `segs` segments, its lengths consistent.
WithWave(h, comm_type, n, segs, pat) ==
    [h EXCEPT !.comm_type = comm_type,
              !.count_wave_array = n,
              !.subarray_count = segs,
              !.samples = Pattern(n, pat),
              !.trigger = IF segs > 1 THEN SubSeq(TriggerTable, 1, 2 * segs) ELSE <<>>,
              !.len_triggertime_array = IF segs > 1 THEN 16 * segs ELSE 0,
              !.len_wave_array_1 = n * (IF comm_type = 0 THEN 1 ELSE 2)]

Input(h, sp) == [h |-> h, sparse |-> sp]

SparseArgs == {NoSparse} \cup {<<k>> : k \in -1..(MaxSamples + 1)}

WaveInputs ==
    {Input(WithWave(Base(enc), ct, n, segs, pat), sp) :
        enc \in Encodings, ct \in {0, 1}, n \in 0..MaxSamples,
        segs \in 1..MaxSegments, pat \in Patterns, sp \in SparseArgs}

SegmentInputs ==
    {Input([WithWave(Base(enc), 1, n, 1, <<-3, 2>>) EXCEPT !.subarray_count = segs],
           NoSparse) :
        enc \in Encodings, n \in 1..2, segs \in {-1, 0}}

MarkerInputs ==
    {Input([Base(enc) EXCEPT !.prefix = prefix, !.marker = marker], NoSparse) :
        enc \in Encodings,
        prefix \in {Digits(n) : n \in {0, 11, 41, 42, 43, 49, 50, 51}}
                    \cup {[i \in 1..11 |-> 200], <<48, 49>> \o WAVEDESC \o <<50>>},
        marker \in {WAVEDESC, <<119, 97, 118, 101, 100, 101, 115, 99>>,
                    <<87, 65, 86, 69, 68, 69, 83, 75>>,
                    <<87, 65, 86, 69, 68, 69, 83, 195>>}}

KeepInputs ==
    {Input([Base(enc) EXCEPT !.keep = keep], NoSparse) :
        enc \in Encodings,
        keep \in {0, 5, 18, 19, 46, 47, 150, 306, 307, 314, 315, 320, 321, 328,
                  329, 336, 337, 346, 347, 356, 357, 358, 362}}

TableFieldNames ==
    {"comm_order", "record_type", "processing_done", "vertical_coupling",
     "bandwidth_limit", "wave_source"}

TableInputs ==
    {Input([Base(enc) EXCEPT ![f] = v, !.seconds = sec], NoSparse) :
        enc \in Encodings, f \in TableFieldNames,
        v \in {0, 1, 2, 4, 5, 7, 8, 9, 10, 255, 256, 65535},
        sec \in {F8Sec30_5, F8Inf}}

TimebaseInputs ==
    {Input([Base(enc) EXCEPT !.timebase = code], NoSparse) :
        enc \in Encodings, code \in 0..101 \cup {256, 512, 65535}}

TimestampInputs ==
    {Input([Base(enc) EXCEPT !.seconds = sec, !.minute = f[1], !.hour = f[2],
                             !.day = f[3], !.month = f[4], !.year = f[5]],
           NoSparse) :
        enc \in Encodings,
        sec \in {F8Zero, F8Sec30_5, F8Sec59_5, F8Sec60, F8MinusHalf, F8NaN,
                 F8Inf, F8MinusInf},
        f \in {<<15, 10, 3, 11, 2020>>, <<60, 10, 3, 11, 2020>>,
               <<15, 24, 3, 11, 2020>>, <<15, 10, 0, 11, 2020>>,
               <<15, 10, 31, 11, 2020>>, <<15, 10, 29, 2, 2020>>,
               <<15, 10, 29, 2, 2021>>, <<15, 10, 3, 0, 2020>>,
               <<15, 10, 3, 13, 2020>>, <<15, 10, 3, 11, 0>>,
               <<15, 10, 3, 11, -1>>, <<0, 0, 1, 1, 9999>>}}

StringInputs ==
    {Input([Base(enc) EXCEPT ![f] = str], NoSparse) :
        enc \in Encodings,
        f \in {"template_name", "instrument_name", "y_unit", "x_unit"},
        str \in {<<>>, <<86, 0, 65>>, <<86, 200>>, [i \in 1..16 |-> 65]}}

ClipInputs ==
    {Input([WithWave(Base(enc), ct, n, segs, pat) EXCEPT
                !.vertical_gain = gain, !.vertical_offset = offset,
                !.max_value = range[1], !.min_value = range[2]], sp) :
        enc \in Encodings, ct \in {0, 1}, n \in {1, 2, 4}, segs \in {1, 2},
        pat \in Patterns \cup {<<0, 0>>, <<-2, 2>>},
        gain \in {F4Half, F4Two, F4MinusOne, F4Inf, F4NaN},
        offset \in {F4Zero, F4One},
        range \in {<<F4Max8, F4Min8>>, <<F4Four, F4MinusFour>>, <<F4Zero, F4Zero>>},
        sp \in {NoSparse, <<2>>}}

IntervalInputs ==
    {Input([WithWave(Base(enc), 1, n, segs, <<-3, 2>>) EXCEPT
                !.horizontal_interval = hi, !.horizontal_offset = ho], NoSparse) :
        enc \in Encodings, n \in {1, 4}, segs \in {1, 2},
        hi \in {F4Zero, F4Half, F4Two, F4MinusOne, F4Inf, F4NaN},
        ho \in {F8Zero, F8MinusOne, F8Sec30_5, F8Inf}}

\* Sequence captures whose sample count is no multiple of the segment count,
\* with a seconds value that is finite, infinite or no number.
UnevenInputs ==
    {Input([WithWave(Base(enc), ct, n, segs, <<-3, 2>>) EXCEPT !.seconds = sec], sp) :
        enc \in Encodings, ct \in {0, 1}, n \in {1, 3, 4, 5}, segs \in {2, 3},
        sec \in {F8Sec30_5, F8Inf, F8MinusInf, F8NaN}, sp \in {NoSparse, <<1>>}}

\* Declared lengths that disagree with what the buffer holds.
LengthInputs ==
    {Input([WithWave(Base(enc), ct, n, 1, <<-3, 2>>) EXCEPT
                !.len_wave_array_1 = n * (ct + 1) + extra,
                !.trailing = trailing,
                !.len_usertext = lu], NoSparse) :
        enc \in Encodings, ct \in {0, 1}, n \in {1, 3},
        extra \in {-100, -1, 0, 1, 50}, trailing \in {<<>>, <<7, 7, 7, 7>>},
        lu \in {-400, -4, 0, 2, 4, 100}}
    \cup
    {Input([WithWave(Base(enc), 1, 4, segs, <<-3, 2>>) EXCEPT
                !.len_wavedesc = lw, !.len_triggertime_array = lt,
                !.trailing = trailing], NoSparse) :
        enc \in Encodings, segs \in {1, 2},
        lw \in {-HeaderLen, 0, HeaderLen, HeaderLen + 8, 1000},
        lt \in {-8, 0, 8, 31, 32, 40}, trailing \in {<<>>, [i \in 1..8 |-> 7]}}

Inputs ==
    WaveInputs \cup SegmentInputs \cup MarkerInputs \cup KeepInputs
        \cup TableInputs \cup TimebaseInputs \cup TimestampInputs
        \cup StringInputs \cup ClipInputs \cup IntervalInputs \cup LengthInputs
        \cup UnevenInputs

----------------------------------------------------------------------------
(* The state machine: __init__ started on an input, one stage per step. *)

Init ==
    \E in \in Inputs :
        /\ logical = in.h
        /\ data = Encode(in.h)
        /\ sparse = in.sparse
        /\ pc = "locate"
        /\ self = NewObject

\* A stage has run: an exception ends the constructor, with no object;
\* otherwise the next stage follows, and after the last one the object is
\* returned.
Advance(r, next) ==
    /\ pc' = IF r.exc # OK THEN r.exc ELSE next
    /\ self' = r.self
    /\ UNCHANGED <<data, sparse, logical>>

Locate ==
    /\ pc = "locate"
    /\ Advance(RunStage("locate", data, sparse, self), "comm_order")

CommOrder ==
    /\ pc = "comm_order"
    /\ Advance(RunStage("comm_order", data, sparse, self), "header")

Header ==
    /\ pc = "header"
    /\ Advance(RunStage("header", data, sparse, self), "timestamp")

Timestamp ==
    /\ pc = "timestamp"
    /\ Advance(RunStage("timestamp", data, sparse, self), "enums")

Enums ==
    /\ pc = "enums"
    /\ Advance(RunStage("enums", data, sparse, self), "samples")

Samples ==
    /\ pc = "samples"
    /\ Advance(RunStage("samples", data, sparse, self), "sequence")

Sequence ==
    /\ pc = "sequence"
    /\ Advance(RunStage("sequence", data, sparse, self), "scale")

Scale ==
    /\ pc = "scale"
    /\ Advance(RunStage("scale", data, sparse, self), "sparse")

Sparse ==
    /\ pc = "sparse"
    /\ Advance(RunStage("sparse", data, sparse, self), "done")

Next ==
    \/ Locate
    \/ CommOrder
    \/ Header
    \/ Timestamp
    \/ Enums
    \/ Samples
    \/ Sequence
    \/ Scale
    \/ Sparse

Spec == Init /\ [][Next]_vars

----------------------------------------------------------------------------
(* The properties.  They read the buffer on their own, by the layout the
   specification gives: the marker within the first 50 bytes, the comm
   order at offset 34 (0: big-endian, 1: little-endian), and fields at
   fixed offsets from the marker. *)

\* The constructor returned or raised (a run the model leaves undecided,
\* NotModelled, is neither).
Ended == pc \in {"done", DataCorruptException, OverflowError, ZeroDivisionError}

MarkerAt(i) == \A j \in 1..8 : data[i + j] = WAVEDESC[j]

MarkerPlaces == {i \in 0..(Min(Len(data), 50) - 8) : MarkerAt(i)}

MarkerInPrefix == MarkerPlaces # {}

MarkerBase == CHOOSE i \in MarkerPlaces : \A j \in MarkerPlaces : i <= j

\* The header is whole: every fixed-offset field lies inside the buffer.
HeaderPresent == MarkerInPrefix /\ MarkerBase + 346 <= Len(data)

StoredByte(off) == data[MarkerBase + off + 1]

StoredCommOrder == StoredByte(34) + 256 * StoredByte(35)

StoredU16(off) ==
    IF StoredCommOrder = 0 THEN 256 * StoredByte(off) + StoredByte(off + 1)
    ELSE StoredByte(off) + 256 * StoredByte(off + 1)

StoredI32(off) ==
    LET b(k) == StoredByte(off + (IF StoredCommOrder = 0 THEN k ELSE 3 - k))
    IN  (IF b(0) >= 128 THEN b(0) - 256 ELSE b(0)) * 16777216
            + b(1) * 65536 + b(2) * 256 + b(3)

(* C1: a buffer whose first 50 bytes do not hold the complete marker text
   WAVEDESC makes the constructor raise DataCorruptException, at its first
   stage, and no object results. *)
C1_NoMarkerIsCorrupt ==
    (pc # "locate" /\ ~MarkerInPrefix) => pc = DataCorruptException

\* The marker is there, cut by the 50-byte boundary, and the decode failed.
C1_Witness ==
    /\ pc = DataCorruptException
    /\ logical.marker = WAVEDESC
    /\ Len(logical.prefix) = 43
    /\ ~MarkerInPrefix

(* C2: once the constructor has ended on a buffer with a whole header in
   which a table-indexed field (comm order, record type, processing type,
   vertical coupling, bandwidth limit, channel source) stores a value that
   is no index of its table, it has ended with DataCorruptException. *)
TableSizes ==
    <<  <<34, 2>>, <<316, 10>>, <<318, 8>>, <<326, 5>>, <<334, 2>>, <<344, 5>> >>

BadTableIndex ==
    \E k \in 1..Len(TableSizes) : StoredU16(TableSizes[k][1]) >= TableSizes[k][2]

C2_BadIndexIsCorrupt ==
    (Ended /\ HeaderPresent /\ BadTableIndex) => pc = DataCorruptException

\* What does hold: a bad index never yields an object.
C2_BadIndexNeverDecodes ==
    (Ended /\ HeaderPresent /\ BadTableIndex) => pc # "done"

(* C3: without decimation, a successful decode has x and y of length
   total_sample_count in non-sequence mode (segment_count <= 1), and of
   shape points_per_segment x segment_count in sequence mode. *)
C3_Shapes ==
    (pc = "done" /\ sparse = NoSparse) =>
        LET n == StoredI32(116)
            segs == StoredI32(144)
        IN  IF segs <= 1
            THEN self.x.shape = <<n>> /\ self.y.shape = <<n>>
            ELSE /\ self.x.shape = <<n \div segs, segs>>
                 /\ self.y.shape = <<n \div segs, segs>>

\* The same, for two samples or more.
C3_ShapesFromTwo ==
    (pc = "done" /\ sparse = NoSparse /\ StoredI32(116) >= 2) =>
        LET n == StoredI32(116)
            segs == StoredI32(144)
        IN  IF segs <= 1
            THEN self.x.shape = <<n>> /\ self.y.shape = <<n>>
            ELSE /\ self.x.shape = <<n \div segs, segs>>
                 /\ self.y.shape = <<n \div segs, segs>>

(* C4: a non-sequence waveform of n samples decoded with an integer sparse
   in 1..n yields exactly sparse samples, and x[k] and y[k] are the
   un-decimated x and y at index k * floor(n / sparse). *)
Undecimated == Construct(data, NoSparse)

C4_Decimation ==
    (/\ Ended
     /\ sparse # NoSparse
     /\ Undecimated.exc = OK
     /\ ~Undecimated.self.is_sequence
     /\ 1 <= sparse[1]
     /\ sparse[1] <= Undecimated.self.count_wave_array) =>
        LET n == Undecimated.self.count_wave_array
            stride == n \div sparse[1]
            full == Undecimated.self
        IN  /\ pc = "done"
            /\ self.x.shape = <<sparse[1]>>
            /\ self.y.shape = <<sparse[1]>>
            /\ \A k \in 0..(sparse[1] - 1) :
                  /\ self.x.v[k + 1] = full.x.v[k * stride + 1]
                  /\ self.y.v[k + 1] = full.y.v[k * stride + 1]

\* The same, for two samples or more.
C4_DecimationFromTwo ==
    (/\ Ended
     /\ sparse # NoSparse
     /\ Undecimated.exc = OK
     /\ ~Undecimated.self.is_sequence
     /\ 1 <= sparse[1]
     /\ 2 <= Undecimated.self.count_wave_array
     /\ sparse[1] <= Undecimated.self.count_wave_array) =>
        LET n == Undecimated.self.count_wave_array
            stride == n \div sparse[1]
            full == Undecimated.self
        IN  /\ pc = "done"
            /\ self.x.shape = <<sparse[1]>>
            /\ self.y.shape = <<sparse[1]>>
            /\ \A k \in 0..(sparse[1] - 1) :
                  /\ self.x.v[k + 1] = full.x.v[k * stride + 1]
                  /\ self.y.v[k + 1] = full.y.v[k * stride + 1]

----------------------------------------------------------------------------
(* The raw samples and trigger times as the buffer holds them: item i of
   the sample region, a signed integer of the selected width, and item j of
   the auxiliary region, a float64. *)

RawSample(i) ==
    LET w == IF self._comm_type = 0 THEN 1 ELSE 2
        bs == SubSeq(SampleBuffer(data, self), i * w + 1, i * w + w)
        hi == IF self.endianness = ">" THEN bs[1] ELSE bs[w]
        lo == IF self.endianness = ">" THEN bs[w] ELSE bs[1]
    IN  IF w = 1 THEN (IF bs[1] >= 128 THEN bs[1] - 256 ELSE bs[1])
        ELSE (IF hi >= 128 THEN hi - 256 ELSE hi) * 256 + lo

Physical(raw) == FSub(FMul(self.vertical_gain, FromInt(raw)), self.vertical_offset)

AuxFloat(j) ==
    F8(ByteOrder(SubSeq(TriggerBuffer(data, self), 8 * j + 1, 8 * j + 8),
                 self.endianness))

\* Element [p][s] of a points x segments matrix.
At(a, p, s) == a.v[p * a.shape[2] + s + 1]

AllFinite(a) == \A i \in 1..Len(a.v) : a.v[i].k = "fin"

(* C5: in sequence mode, without decimation, y[p][s] is the scaled raw
   sample at flat index s * pps + p, with pps = total_sample_count /
   segment_count, and the time axis of segment s differs from that of
   segment 0 by trigger_time[s] - trigger_time[0] at every point, where
   trigger_time[s] is item 2 * s of the auxiliary float64 buffer.  (Finite
   values, exact arithmetic.) *)
C5_SequenceLayout ==
    (pc = "done" /\ sparse = NoSparse /\ self.is_sequence /\ AllFinite(self.x)) =>
        LET segs == self.subarray_count
            pps == self.count_wave_array \div segs
        IN  /\ self.y.shape = <<pps, segs>>
            /\ self.x.shape = <<pps, segs>>
            /\ \A p \in 0..(pps - 1) : \A s \in 0..(segs - 1) :
                  /\ At(self.y, p, s) = Physical(RawSample(s * pps + p))
                  /\ FSub(At(self.x, p, s), At(self.x, p, 0))
                        = FSub(AuxFloat(2 * s), AuxFloat(0))

\* Three segments of two points each were decoded.
C5_Witness ==
    /\ pc = "done"
    /\ sparse = NoSparse
    /\ self.is_sequence
    /\ self.subarray_count = 3
    /\ self.count_wave_array = 6
    /\ AllFinite(self.x)

\* The flat index of the raw sample that element i (from 1) of y holds.
RawIndexOf(i) ==
    IF self.is_sequence
    THEN LET segs == self.subarray_count
             pps == self.count_wave_array \div segs
         IN  ((i - 1) % segs) * pps + ((i - 1) \div segs)
    ELSE i - 1

\* The scaled samples, in the order y holds them.
PhysicalSamples == [i \in 1..Len(self.y.v) |-> Physical(RawSample(RawIndexOf(i)))]

\* max(v) > bound and min(v) < bound; a maximum or minimum over a sequence
\* that holds a nan is nan, and compares false.
MaxAbove(v, bound) ==
    /\ \A i \in 1..Len(v) : v[i].k # "nan"
    /\ \E i \in 1..Len(v) :
          /\ \A j \in 1..Len(v) : ~FLt(v[i], v[j])
          /\ FGt(v[i], bound)

MinBelow(v, bound) ==
    /\ \A i \in 1..Len(v) : v[i].k # "nan"
    /\ \E i \in 1..Len(v) :
          /\ \A j \in 1..Len(v) : ~FLt(v[j], v[i])
          /\ FLt(v[i], bound)

(* C6: clipping never fails the decode and never changes a sample: the
   scaling stage always succeeds, and after it the stored samples are
   y_physical = vertical_gain * y_raw - vertical_offset and clipped is true
   exactly when max(y_physical) > vertical_max or min(y_physical) <
   vertical_min; the samples of a finished decode without decimation are
   the same. *)
C6_ClippingOnlyFlags ==
    /\ pc = "scale" => RunStage("scale", data, sparse, self).exc = OK
    /\ pc = "sparse" =>
        /\ self.y.v = PhysicalSamples
        /\ self.clipped = (\/ MaxAbove(PhysicalSamples, self.y_max)
                           \/ MinBelow(PhysicalSamples, self.y_min))
    /\ (pc = "done" /\ sparse = NoSparse) => self.y.v = PhysicalSamples

\* A clipped signal was decoded, below the vertical minimum only.
C6_Witness ==
    /\ pc = "done"
    /\ self.clipped
    /\ \A i \in 1..Len(self.y.v) : ~FGt(self.y.v[i], self.y_max)

(* C7: for a timebase code below 48 the timebase string is
   "<magnitude> <unit>s/div" with the magnitude [1, 2, 5, 10, 20, 50, 100,
   200, 500][code mod 9] and the unit prefix entry code div 9 of p, n, u,
   m, (none), k; code 2 gives "5 ps/div" and code 100 gives "EXTERNAL". *)
C7_Timebase ==
    pc = "done" =>
        LET code == StoredU16(324)
            magnitude == <<"1", "2", "5", "10", "20", "50", "100", "200", "500">>
            prefix == <<"p", "n", "u", "m", "", "k">>
        IN  /\ code < 48 =>
                self.timebase = magnitude[(code % 9) + 1] \o " "
                                    \o prefix[(code \div 9) + 1] \o "s/div"
            /\ code = 2 => self.timebase = "5 ps/div"
            /\ code = 100 => self.timebase = "EXTERNAL"

\* Code 47, the last of the table, was decoded.
C7_Witness == pc = "done" /\ StoredU16(324) = 47 /\ self.timebase = "5 ks/div"

Flipped(h) ==
    [h EXCEPT !.enc = IF h.enc = ">" THEN "<" ELSE ">",
              !.comm_order = 1 - h.comm_order]

\* Every attribute but the byte-order tag and the comm order.
Comparable(s) == [s EXCEPT !.endianness = "", !._comm_order = 0]

\* The header values, x, y and clipped.
HeaderAndSignal(s) ==
    [Comparable(s) EXCEPT !.trigger_times = None, !.trigger_offsets = None]

\* The comm-order field names the byte order the buffer was written in.
OrderAsWritten == logical.comm_order = (IF logical.enc = ">" THEN 0 ELSE 1)

(* The header declares the regions where they were written: the auxiliary
   array directly after the header and the user text, the samples directly
   after the auxiliary array, and no more samples than were written. *)
WrittenWhereDeclared ==
    /\ logical.len_wavedesc + logical.len_usertext
            = HeaderLen + Len(logical.usertext)
    /\ logical.len_triggertime_array = 8 * Len(logical.trigger)
    /\ logical.count_wave_array <= Len(logical.samples)

(* C8: the same logical header and samples, written once big-endian with
   comm order 0 and once little-endian with comm order 1, decode alike:
   both fail with the same exception, or both succeed with the same header
   values, x, y and clipped. *)
C8_ByteOrderAgnostic ==
    (Ended /\ OrderAsWritten) =>
        LET other == Construct(Encode(Flipped(logical)), sparse)
        IN  IF pc = "done"
            THEN other.exc = OK /\ HeaderAndSignal(other.self) = HeaderAndSignal(self)
            ELSE other.exc = pc

(* C8, amended: the same holds, for every attribute but the byte-order tag
   and the comm order, when the header declares the auxiliary array and
   the samples where they were written. *)
C8_ByteOrderAgnosticWhereDeclared ==
    (Ended /\ OrderAsWritten /\ WrittenWhereDeclared) =>
        LET other == Construct(Encode(Flipped(logical)), sparse)
        IN  IF pc = "done"
            THEN other.exc = OK /\ Comparable(other.self) = Comparable(self)
            ELSE other.exc = pc

\* A big-endian sequence capture of 16-bit samples was decoded.
C8_Witness ==
    /\ pc = "done"
    /\ logical.enc = ">"
    /\ OrderAsWritten
    /\ WrittenWhereDeclared
    /\ self._comm_type = 1
    /\ self.is_sequence
    /\ self.instrument_number = 1234

(* C9: a timebase code that is neither below 48 nor 100 makes the decode
   fail with DataCorruptException. *)
C9_UnknownTimebaseIsCorrupt ==
    (Ended /\ HeaderPresent /\ StoredU16(324) >= 48 /\ StoredU16(324) # 100) =>
        pc = DataCorruptException

(* C10: with sample_start = marker base + header length + user-text length
   + trigger-time-array length, the decode fails with DataCorruptException
   whenever the bytes sample_start .. sample_start + wave-array length are
   not all inside the buffer, or are not exactly total_sample_count samples
   of the selected width. *)
C10_SampleRangeChecked ==
    LET start == MarkerBase + StoredI32(36) + StoredI32(40) + StoredI32(48)
        length == StoredI32(60)
        width == IF StoredU16(32) = 0 THEN 1 ELSE 2
    IN  (/\ Ended
         /\ HeaderPresent
         /\ \/ start < 0
            \/ length < 0
            \/ start + length > Len(data)
            \/ length # StoredI32(116) * width) =>
            pc = DataCorruptException

\* The constructor ended on a whole header that declares a sequence whose
\* sample count is no multiple of its segment count.
UnevenSequence ==
    /\ Ended
    /\ HeaderPresent
    /\ StoredI32(144) > 1
    /\ StoredI32(116) % StoredI32(144) # 0

(* C11: in sequence mode (segment_count > 1), a total_sample_count that is
   no multiple of segment_count makes the decode fail with
   DataCorruptException. *)
C11_UnevenSequenceIsCorrupt == UnevenSequence => pc = DataCorruptException

\* What does hold: such a sequence never yields an object.
C11_UnevenSequenceNeverDecodes == UnevenSequence => pc # "done"

\* The constructor ended on a decimation count above the number of samples
\* of a waveform that decodes without decimation.
SparseAboveCount ==
    /\ Ended
    /\ sparse # NoSparse
    /\ Undecimated.exc = OK
    /\ sparse[1] > Undecimated.self.count_wave_array

(* C12: with sparse larger than the number of samples n the decode does not
   fail, and the result holds at most n entries, each a distinct sample of
   the un-decimated waveform: the entries of a non-sequence result are the
   un-decimated x and y at pairwise different indices. *)
C12_SparseAboveCountReduces ==
    SparseAboveCount =>
        LET full == Undecimated.self
            n == full.count_wave_array
        IN  /\ pc = "done"
            /\ self.x.shape[1] <= n
            /\ ~full.is_sequence =>
                  \E idx \in [1..self.x.shape[1] -> 1..n] :
                      /\ \A i, j \in 1..self.x.shape[1] : idx[i] = idx[j] => i = j
                      /\ \A i \in 1..self.x.shape[1] :
                            /\ self.x.v[i] = full.x.v[idx[i]]
                            /\ self.y.v[i] = full.y.v[idx[i]]

(* What does hold for two samples or more, not in sequence mode: the result
   has sparse entries, every one the first sample. *)
C12_SparseAboveCountRepeats ==
    (/\ SparseAboveCount
     /\ ~Undecimated.self.is_sequence
     /\ Undecimated.self.count_wave_array >= 2) =>
        /\ pc = "done"
        /\ self.x.shape = <<sparse[1]>>
        /\ self.y.shape = <<sparse[1]>>
        /\ \A i \in 1..sparse[1] :
              /\ self.x.v[i] = Undecimated.self.x.v[1]
              /\ self.y.v[i] = Undecimated.self.y.v[1]

\* The four bytes of the horizontal interval are those of +0.0 or -0.0.
ZeroInterval ==
    /\ \A off \in 176..179 : StoredByte(off) \in {0, 128}
    /\ Cardinality({off \in 176..179 : StoredByte(off) = 128}) <= 1
    /\ \A off \in 176..179 :
          StoredByte(off) = 128 => off = (IF StoredCommOrder = 0 THEN 176 ELSE 179)

(* C13: a header whose horizontal interval (offset 176) is zero makes the
   decode fail with DataCorruptException. *)
C13_ZeroIntervalIsCorrupt ==
    (Ended /\ HeaderPresent /\ StoredCommOrder \in {0, 1} /\ ZeroInterval) =>
        pc = DataCorruptException

====
